---- MODULE Spec2Model ----
(***************************************************************************)
(* Model of src/src/camera.rs (gphoto-rs): the Camera session object, its  *)
(* operations over the native libgphoto2 handle, the wait_for_file event   *)
(* loop and util::camera_text_to_string.  One caller drives one session:   *)
(* the crate is synchronous and a Camera is used through &mut self.        *)
(***************************************************************************)
EXTENDS Integers, Sequences, FiniteSets, TLC

(* ------------------------------ bounds --------------------------------- *)

\* Operations the caller invokes on one session before it lets it go.
MaxOps == 2
\* "Other" events the native layer delivers to one wait_for_file call.
MaxOther == 2
\* Capacity of the native text buffer (CameraText.text), scaled down.
TextCap == 3
\* Largest element count the native storage query reports.
MaxStorage == 2

(* --------------------------- native layer ------------------------------ *)

\* Status codes a native call can report.
Status ==
  {"GP_OK", "GP_ERROR_NOT_SUPPORTED", "GP_ERROR_CORRUPTED_DATA",
   "GP_ERROR_IO", "GP_ERROR_UNRECOGNIZED"}

\* Event kinds as the match of wait_for_file tells them apart.
EventKind == {"GP_EVENT_FILE_ADDED", "GP_EVENT_TIMEOUT", "GP_EVENT_OTHER"}

\* Bytes of a native text buffer: NUL, 'A', and the two bytes of U+00E9.
Bytes == {0, 65, 195, 169}

\* Caller-supplied u32 timeouts, as (bit 31, low 31 bits).
Timeouts == {[hi |-> 0, lo |-> 0], [hi |-> 0, lo |-> 1000], [hi |-> 1, lo |-> 5]}

\* The one native handle gp_camera_new hands out; 0 stands for no pointer.
Handle == 1
Null == 0

(* --------------------------- error translation ------------------------- *)

\* ::error::from_libgphoto2: the domain error kind of a native status.
from_libgphoto2(s) ==
  CASE s = "GP_OK" -> "Ok"
    [] s = "GP_ERROR_NOT_SUPPORTED" -> "NotSupported"
    [] s = "GP_ERROR_CORRUPTED_DATA" -> "CorruptedData"
    [] s = "GP_ERROR_IO" -> "DeviceError"
    [] OTHER -> "Unknown"

(* ------------------------------- state --------------------------------- *)

VARIABLES
  pc,        \* position of the caller
  cam,       \* the Camera object: [exists, ptr]
  native,    \* the native handle: [allocated, initialized, unrefs]
  opsDone,   \* operations invoked on the session so far
  op,        \* the operation running or last run
  ncalls,    \* native calls issued by the operation running or last run
  call,      \* the last native call: [seq, fn, handle, status, arg], arg the
             \* integer passed in (a timeout) or reported back (a count)
  result,    \* what the operation returned: [ret, kind]
  errs,      \* operations on the session that have returned an error
  out,       \* the value returned with an Ok: [tag, len, cap, src, valid]
  timeout,   \* wait_for_file: the caller's timeout
  events,    \* wait_for_file: events delivered to the running call
  frees,     \* wait_for_file: free() calls made on each event's payload
  file,      \* wait_for_file: the CameraFilePath copied out of the payload
  text       \* the text buffer of a text query: [buf, owners, destroyed, len,
             \* touched], touched the number of leading bytes accessed

vars ==
  <<pc, cam, native, opsDone, op, ncalls, call, result, errs, out,
    timeout, events, frees, file, text>>

waitVars == <<timeout, events, frees, file>>

NoCall == [seq |-> 0, fn |-> "none", handle |-> Null, status |-> "GP_OK", arg |-> 0]
NoResult == [ret |-> "none", kind |-> "none"]
NoOut == [tag |-> "none", len |-> 0, cap |-> 0, src |-> 0, valid |-> TRUE]
NoFile == [src |-> 0, valid |-> TRUE]
NoText == [buf |-> <<>>, owners |-> {}, destroyed |-> 0, len |-> 0, touched |-> 0]

\* Ok(value) and Err(from_libgphoto2(status)) as try_unsafe! and the
\* operations build them.
Ok == [ret |-> "ok", kind |-> "Ok"]
Err(s) == [ret |-> "err", kind |-> from_libgphoto2(s)]
Value(tag) == [NoOut EXCEPT !.tag = tag]

Init ==
  /\ pc = "start"
  /\ cam = [exists |-> FALSE, ptr |-> Null]
  /\ native = [allocated |-> FALSE, initialized |-> FALSE, unrefs |-> 0]
  /\ opsDone = 0
  /\ op = "none"
  /\ ncalls = 0
  /\ call = NoCall
  /\ result = NoResult
  /\ errs = 0
  /\ out = NoOut
  /\ timeout = [hi |-> 0, lo |-> 0]
  /\ events = <<>>
  /\ frees = <<>>
  /\ file = NoFile
  /\ text = NoText

\* A native call on the session's handle, with the status it reports.
NativeCall(fn, s, arg, n) ==
  /\ call' = [seq |-> call.seq + 1, fn |-> fn, handle |-> cam.ptr,
              status |-> s, arg |-> arg]
  /\ ncalls' = n

\* The locals of a finished wait_for_file call are gone by the next call.
ResetWait ==
  /\ timeout' = [hi |-> 0, lo |-> 0]
  /\ events' = <<>>
  /\ frees' = <<>>
  /\ file' = NoFile

\* The caller invokes operation o on the open session, having let go of
\* the String an earlier text query returned.
Invoke(o) ==
  /\ pc = "idle"
  /\ cam.exists
  /\ text.owners = {}
  /\ opsDone < MaxOps
  /\ opsDone' = opsDone + 1
  /\ op' = o

(* --------------------------- Drop for Camera --------------------------- *)

\* Mutant: the handle is unreferenced twice.
unref_twice(n) == [n EXCEPT !.unrefs = @ + 2]

\* gp_camera_unref(self.camera)
unref(n) == [n EXCEPT !.unrefs = @ + 1]

\* impl Drop for Camera: the object goes and its handle is unreferenced.
DropCamera ==
  /\ cam' = [cam EXCEPT !.exists = FALSE]
  /\ native' = unref(native)

(* ------------------------------ autodetect ----------------------------- *)

\* Camera::autodetect up to the construction of the Camera: gp_camera_new
\* and try_unsafe!, then Camera { camera: ptr }.
autodetect_new ==
  /\ pc = "start"
  /\ op' = "autodetect"
  /\ \E s \in Status :
       /\ call' = [seq |-> call.seq + 1, fn |-> "gp_camera_new", handle |-> Null,
                   status |-> s, arg |-> 0]
       /\ ncalls' = 1
       /\ IF s = "GP_OK"
            THEN /\ native' = [native EXCEPT !.allocated = TRUE]
                 /\ cam' = [exists |-> TRUE, ptr |-> Handle]
                 /\ pc' = "init"
                 /\ UNCHANGED <<result, out>>
            ELSE /\ result' = Err(s)
                 /\ out' = NoOut
                 /\ pc' = "failed"
                 /\ UNCHANGED <<cam, native>>
  /\ UNCHANGED <<opsDone, errs, text>>
  /\ UNCHANGED waitVars

\* Mutant: a failed gp_camera_init returns without dropping the Camera.
autodetect_init_leak ==
  /\ pc = "init"
  /\ \E s \in Status :
       /\ NativeCall("gp_camera_init", s, 0, ncalls + 1)
       /\ IF s = "GP_OK"
            THEN /\ native' = [native EXCEPT !.initialized = TRUE]
                 /\ result' = Ok
                 /\ out' = Value("session")
                 /\ pc' = "idle"
            ELSE /\ UNCHANGED native
                 /\ result' = Err(s)
                 /\ out' = NoOut
                 /\ pc' = "failed"
       /\ UNCHANGED cam
  /\ UNCHANGED <<opsDone, op, errs, text>>
  /\ UNCHANGED waitVars

\* Mutant: the session is returned whatever gp_camera_init reported, the
\* handle left as gp_camera_new made it.
autodetect_init_skipped ==
  /\ pc = "init"
  /\ \E s \in Status : NativeCall("gp_camera_init", s, 0, ncalls + 1)
  /\ result' = Ok
  /\ out' = Value("session")
  /\ pc' = "idle"
  /\ UNCHANGED <<cam, native, opsDone, op, errs, text>>
  /\ UNCHANGED waitVars

\* Camera::autodetect from gp_camera_init on: a failure returns through
\* try_unsafe! and the local Camera is dropped on the way out.
autodetect_init ==
  /\ pc = "init"
  /\ \E s \in Status :
       /\ NativeCall("gp_camera_init", s, 0, ncalls + 1)
       /\ IF s = "GP_OK"
            THEN /\ native' = [native EXCEPT !.initialized = TRUE]
                 /\ UNCHANGED cam
                 /\ result' = Ok
                 /\ out' = Value("session")
                 /\ pc' = "idle"
            ELSE /\ DropCamera
                 /\ result' = Err(s)
                 /\ out' = NoOut
                 /\ pc' = "failed"
  /\ UNCHANGED <<opsDone, op, errs, text>>
  /\ UNCHANGED waitVars

\* The owner of the session lets it go: Drop runs.
drop ==
  /\ pc = "idle"
  /\ cam.exists
  /\ DropCamera
  /\ pc' = "closed"
  /\ UNCHANGED <<opsDone, op, ncalls, call, result, errs, out, text>>
  /\ UNCHANGED waitVars

(* -------------------- capture, trigger, download ----------------------- *)

\* Mutant: a failed call leaves the session without its handle.
Checked_poison(fn, s, tag) ==
  /\ NativeCall(fn, s, 0, 1)
  /\ IF s = "GP_OK"
       THEN result' = Ok /\ out' = Value(tag) /\ UNCHANGED <<errs, cam>>
       ELSE /\ result' = Err(s) /\ out' = NoOut /\ errs' = errs + 1
            /\ cam' = [cam EXCEPT !.ptr = Null]
  /\ pc' = "idle"
  /\ text' = NoText
  /\ ResetWait
  /\ UNCHANGED native

\* Mutant: a failed call is issued a second time and the second status
\* decides the outcome.
Checked_retry(fn, s, tag) ==
  /\ \E s2 \in Status :
       LET n == IF s = "GP_OK" THEN 1 ELSE 2
           last == IF s = "GP_OK" THEN s ELSE s2
       IN /\ call' = [seq |-> call.seq + n, fn |-> fn, handle |-> cam.ptr,
                      status |-> last, arg |-> 0]
          /\ ncalls' = n
          /\ IF last = "GP_OK"
               THEN result' = Ok /\ out' = Value(tag) /\ UNCHANGED errs
               ELSE result' = Err(last) /\ out' = NoOut /\ errs' = errs + 1
  /\ pc' = "idle"
  /\ text' = NoText
  /\ ResetWait
  /\ UNCHANGED <<cam, native>>

\* An operation that is one native call under try_unsafe! and then
\* Ok(value): the status decides the whole outcome.
Checked(fn, s, tag) ==
  /\ NativeCall(fn, s, 0, 1)
  /\ IF s = "GP_OK"
       THEN result' = Ok /\ out' = Value(tag) /\ UNCHANGED errs
       ELSE result' = Err(s) /\ out' = NoOut /\ errs' = errs + 1
  /\ pc' = "idle"
  /\ text' = NoText
  /\ ResetWait
  /\ UNCHANGED <<cam, native>>

capture_image ==
  /\ Invoke("capture_image")
  /\ \E s \in Status : Checked("gp_camera_capture", s, "file")

trigger_capture ==
  /\ Invoke("trigger_capture")
  /\ \E s \in Status : Checked("gp_camera_trigger_capture", s, "unit")

download ==
  /\ Invoke("download")
  /\ \E s \in Status : Checked("gp_camera_file_get", s, "unit")

(* ----------------------------- wait_for_file -------------------------- *)

\* `timeout as c_int`: the u32 reinterpreted as a signed 32-bit integer.
as_c_int(t) == t.lo - t.hi * 2147483647 - t.hi

\* libc free(): a no-op on a null pointer, else one release of the payload.
free(fr, d) == IF d = Null THEN fr ELSE [fr EXCEPT ![d] = @ + 1]

\* `if !data.is_null() { free(data) }`
free_if_not_null(fr, d) == IF d # Null THEN free(fr, d) ELSE fr

LastEvent == events[Len(events)]

Others == Cardinality({i \in 1..Len(events) : events[i].kind = "GP_EVENT_OTHER"})

\* The caller invokes wait_for_file(context, timeout): the loop is entered.
wait_for_file ==
  /\ Invoke("wait_for_file")
  /\ \E t \in Timeouts : timeout' = t
  /\ events' = <<>>
  /\ frees' = <<>>
  /\ file' = NoFile
  /\ ncalls' = 0
  /\ result' = NoResult
  /\ out' = NoOut
  /\ pc' = "wait_call"
  /\ text' = NoText
  /\ UNCHANGED <<cam, native, call, errs>>

\* One gp_camera_wait_for_event under try_unsafe!: an error status ends the
\* call; a success delivers an event kind and a payload pointer, which the
\* native layer may leave null.
wait_native ==
  /\ pc = "wait_call"
  /\ \E s \in Status :
       /\ NativeCall("gp_camera_wait_for_event", s, as_c_int(timeout), ncalls + 1)
       /\ IF s = "GP_OK"
            THEN \E k \in EventKind, nonnull \in BOOLEAN :
                   /\ k = "GP_EVENT_OTHER" => Others < MaxOther
                   /\ events' = Append(events,
                        [kind |-> k,
                         data |-> IF nonnull THEN Len(events) + 1 ELSE Null])
                   /\ frees' = Append(frees, 0)
                   /\ pc' = "wait_match"
                   /\ UNCHANGED <<result, errs, out>>
            ELSE /\ result' = Err(s)
                 /\ errs' = errs + 1
                 /\ out' = NoOut
                 /\ pc' = "idle"
                 /\ UNCHANGED <<events, frees>>
  /\ UNCHANGED <<cam, native, opsDone, op, timeout, file, text>>

\* Mutant: the payload is freed first and the CameraFilePath cloned out of
\* it afterwards.
wait_file_added_free_first ==
  /\ pc = "wait_match"
  /\ LastEvent.kind = "GP_EVENT_FILE_ADDED"
  /\ frees' = free(frees, LastEvent.data)
  /\ file' = [src |-> LastEvent.data, valid |-> FALSE]
  /\ pc' = "wait_free"
  /\ UNCHANGED <<cam, native, opsDone, op, ncalls, call, result, errs, out,
                 timeout, events, text>>

\* GP_EVENT_FILE_ADDED, line 73: the CameraFilePath is cloned out of the
\* payload.  Reading through a null payload is undefined: the process
\* faults, or the clone holds whatever the read produced.
wait_file_added_clone ==
  /\ pc = "wait_match"
  /\ LastEvent.kind = "GP_EVENT_FILE_ADDED"
  /\ IF LastEvent.data = Null
       THEN \/ /\ pc' = "fault"
               /\ result' = [ret |-> "fault", kind |-> "none"]
               /\ UNCHANGED file
            \/ /\ pc' = "wait_free"
               /\ file' = [src |-> Null, valid |-> FALSE]
               /\ UNCHANGED result
       ELSE /\ pc' = "wait_free"
            /\ file' = [src |-> LastEvent.data,
                        valid |-> frees[LastEvent.data] = 0]
            /\ UNCHANGED result
  /\ UNCHANGED <<cam, native, opsDone, op, ncalls, call, errs, out,
                 timeout, events, frees, text>>

\* GP_EVENT_FILE_ADDED, lines 74-75: free(data), return Ok(Some(file)).
wait_file_added_return ==
  /\ pc = "wait_free"
  /\ frees' = free(frees, LastEvent.data)
  /\ result' = Ok
  /\ out' = [Value("file") EXCEPT !.src = file.src, !.valid = file.valid]
  /\ pc' = "idle"
  /\ UNCHANGED <<cam, native, opsDone, op, ncalls, call, errs,
                 timeout, events, file, text>>

\* GP_EVENT_TIMEOUT, lines 77-82: release a non-null payload, Ok(None).
wait_timeout ==
  /\ pc = "wait_match"
  /\ LastEvent.kind = "GP_EVENT_TIMEOUT"
  /\ frees' = free_if_not_null(frees, LastEvent.data)
  /\ result' = Ok
  /\ out' = Value("nofile")
  /\ pc' = "idle"
  /\ UNCHANGED <<cam, native, opsDone, op, ncalls, call, errs,
                 timeout, events, file, text>>

\* Mutant: an "other" event ends the call like a timeout.
wait_other_returns ==
  /\ pc = "wait_match"
  /\ LastEvent.kind = "GP_EVENT_OTHER"
  /\ frees' = free_if_not_null(frees, LastEvent.data)
  /\ result' = Ok
  /\ out' = Value("nofile")
  /\ pc' = "idle"
  /\ UNCHANGED <<cam, native, opsDone, op, ncalls, call, errs,
                 timeout, events, file, text>>

\* Mutant: an "other" event loops without releasing its payload.
wait_other_leak ==
  /\ pc = "wait_match"
  /\ LastEvent.kind = "GP_EVENT_OTHER"
  /\ pc' = "wait_call"
  /\ UNCHANGED <<cam, native, opsDone, op, ncalls, call, result, errs, out,
                 timeout, events, frees, file, text>>

\* Any other event, lines 83-87: release a non-null payload and loop.
wait_other ==
  /\ pc = "wait_match"
  /\ LastEvent.kind = "GP_EVENT_OTHER"
  /\ frees' = free_if_not_null(frees, LastEvent.data)
  /\ pc' = "wait_call"
  /\ UNCHANGED <<cam, native, opsDone, op, ncalls, call, result, errs, out,
                 timeout, events, file, text>>

(* --------------------------- port, abilities --------------------------- *)

\* Mutant: a non-success status is returned as an error.
Asserted_as_error(fn, s, tag) ==
  /\ NativeCall(fn, s, 0, 1)
  /\ IF s = "GP_OK"
       THEN result' = Ok /\ out' = Value(tag)
       ELSE result' = Err(s) /\ out' = NoOut
  /\ pc' = "idle"
  /\ UNCHANGED errs
  /\ text' = NoText
  /\ ResetWait
  /\ UNCHANGED <<cam, native>>

\* assert_eq!(GP_OK, native call): a non-success status panics.
Asserted(fn, s, tag) ==
  /\ NativeCall(fn, s, 0, 1)
  /\ IF s = "GP_OK"
       THEN result' = Ok /\ out' = Value(tag) /\ pc' = "idle"
       ELSE /\ result' = [ret |-> "panic", kind |-> "none"]
            /\ out' = NoOut
            /\ pc' = "panicked"
  /\ UNCHANGED errs
  /\ text' = NoText
  /\ ResetWait
  /\ UNCHANGED <<cam, native>>

port ==
  /\ Invoke("port")
  /\ \E s \in Status : Asserted("gp_camera_get_port_info", s, "port")

abilities ==
  /\ Invoke("abilities")
  /\ \E s \in Status : Asserted("gp_camera_get_abilities", s, "abilities")

\* A panic that unwinds runs Drop for the Camera its owner holds; a panic
\* that aborts runs nothing (the process stays at "panicked").
unwind ==
  /\ pc = "panicked"
  /\ cam.exists
  /\ DropCamera
  /\ pc' = "unwound"
  /\ UNCHANGED <<opsDone, op, ncalls, call, result, errs, out, text>>
  /\ UNCHANGED waitVars

(* ------------------------------- storage ------------------------------- *)

\* Mutant: the Vec is built with the capacity but no length.
from_raw_parts_empty(ptr, length, capacity) ==
  [Value("storage") EXCEPT !.src = ptr, !.len = 0, !.cap = capacity]

\* Vec::from_raw_parts(storage, length, length): the allocation re-owned.
from_raw_parts(ptr, length, capacity) ==
  [Value("storage") EXCEPT !.src = ptr, !.len = length, !.cap = capacity]

\* Mutant: the status is not checked; the Vec is built from the output
\* parameters whatever the call reported.
storage_unchecked ==
  /\ Invoke("storage")
  /\ \E s \in Status, n \in 0..MaxStorage, ptr \in {Null, Handle + 1} :
       /\ n > 0 => ptr # Null
       /\ NativeCall("gp_camera_get_storageinfo", s, n, 1)
       /\ result' = Ok
       /\ out' = from_raw_parts(ptr, n, n)
       /\ UNCHANGED errs
  /\ pc' = "idle"
  /\ text' = NoText
  /\ ResetWait
  /\ UNCHANGED <<cam, native>>

\* Camera::storage: a zero count may come with a null array pointer.
storage ==
  /\ Invoke("storage")
  /\ \E s \in Status, n \in 0..MaxStorage, ptr \in {Null, Handle + 1} :
       /\ n > 0 => ptr # Null
       /\ NativeCall("gp_camera_get_storageinfo", s, n, 1)
       /\ IF s = "GP_OK"
            THEN result' = Ok /\ out' = from_raw_parts(ptr, n, n) /\ UNCHANGED errs
            ELSE result' = Err(s) /\ out' = NoOut /\ errs' = errs + 1
  /\ pc' = "idle"
  /\ text' = NoText
  /\ ResetWait
  /\ UNCHANGED <<cam, native>>

(* ---------------------- summary, manual, about_driver ----------------- *)

\* Contents the native call can leave in CameraText.text: a terminated
\* C string somewhere in the fixed-capacity array.
Buffers == {b \in [1..TextCap -> Bytes] : \E i \in 1..TextCap : b[i] = 0}

\* CStr::from_ptr(..).to_bytes().len(): the bytes before the first NUL.
RECURSIVE strlen_from(_, _)
strlen_from(b, i) ==
  IF i > Len(b) \/ b[i] = 0 THEN 0 ELSE 1 + strlen_from(b, i + 1)

strlen(b) == strlen_from(b, 1)

\* String::from_utf8's validation, over the bytes the model has: ASCII, or
\* the lead byte 0xC3 followed by the continuation byte 0xA9.
RECURSIVE utf8_from(_, _, _)
utf8_from(b, i, n) ==
  IF i > n THEN TRUE
  ELSE IF b[i] = 65 THEN utf8_from(b, i + 1, n)
  ELSE IF b[i] = 195 THEN i + 1 <= n /\ b[i + 1] = 169 /\ utf8_from(b, i + 2, n)
  ELSE FALSE

is_utf8(b, n) == utf8_from(b, 1, n)

\* A text query up to its try_unsafe!: an error status returns at once, a
\* success leaves a filled CameraText, passed by value to the transfer.
TextQuery(fn, s) ==
  /\ NativeCall(fn, s, 0, 1)
  /\ IF s = "GP_OK"
       THEN /\ \E b \in Buffers :
                 text' = [buf |-> b, owners |-> {"camera_text"},
                          destroyed |-> 0, len |-> 0, touched |-> 0]
            /\ result' = NoResult
            /\ out' = NoOut
            /\ pc' = "text_transfer"
            /\ UNCHANGED errs
       ELSE /\ result' = Err(s)
            /\ errs' = errs + 1
            /\ out' = NoOut
            /\ pc' = "idle"
            /\ text' = NoText
  /\ ResetWait
  /\ UNCHANGED <<cam, native>>

summary ==
  /\ Invoke("summary")
  /\ \E s \in Status : TextQuery("gp_camera_get_summary", s)

manual ==
  /\ Invoke("manual")
  /\ \E s \in Status : TextQuery("gp_camera_get_manual", s)

about_driver ==
  /\ Invoke("about_driver")
  /\ \E s \in Status : TextQuery("gp_camera_get_about", s)

\* The leading bytes the transfer reads: CStr::from_ptr scans up to and
\* with the terminator, String::from_utf8 validates the `length` bytes of
\* the Vec.  Nothing is written.
bytes_read(b, length) ==
  IF strlen(b) + 1 > length THEN strlen(b) + 1 ELSE length

\* Mutant: the Vec is given the capacity as its length.
reown_full(t, length) == [t EXCEPT !.owners = @ \cup {"vec"}, !.len = Len(t.buf)]

\* Vec::<u8>::from_raw_parts(camera_text.text.as_mut_ptr(), length, cap):
\* the Vec becomes an owner of the array that camera_text still holds.
reown(t, length) == [t EXCEPT !.owners = @ \cup {"vec"}, !.len = length]

\* util::camera_text_to_string, lines 237-245: the length up to the
\* terminator, the Vec over the buffer, and String::from_utf8 on it.
camera_text_to_string ==
  /\ pc = "text_transfer"
  /\ text' = [reown(text, strlen(text.buf)) EXCEPT
                !.touched = bytes_read(text.buf, reown(text, strlen(text.buf)).len)]
  /\ pc' = IF is_utf8(text.buf, strlen(text.buf)) THEN "text_ok" ELSE "text_bad"
  /\ UNCHANGED <<cam, native, opsDone, op, ncalls, call, result, errs, out>>
  /\ UNCHANGED waitVars

\* The allocator's dealloc, run by the drop of the Vec or String that
\* holds the buffer.
dealloc(t) == [t EXCEPT !.owners = @ \ {"vec"}, !.destroyed = @ + 1]

\* The by-value CameraText goes out of scope: its array ends with it.
end_of_scope(t) == [t EXCEPT !.owners = @ \ {"camera_text"}, !.destroyed = @ + 1]

\* map_err on invalid UTF-8, lines 245-247: the FromUtf8Error, and the Vec
\* in it, is dropped.  The buffer is no allocation of the allocator, so
\* the dealloc is undefined: the process faults or carries on.
text_drop_vec ==
  /\ pc = "text_bad"
  /\ text' = dealloc(text)
  /\ \/ /\ pc' = "fault"
        /\ result' = [ret |-> "fault", kind |-> "none"]
     \/ /\ pc' = "text_err"
        /\ UNCHANGED result
  /\ UNCHANGED <<cam, native, opsDone, op, ncalls, call, errs, out>>
  /\ UNCHANGED waitVars

\* The query returns: Ok(String) over the buffer, or CorruptedData.  The
\* array ends with camera_text, so the String's buffer is no longer valid.
text_return ==
  /\ pc \in {"text_ok", "text_err"}
  /\ text' = end_of_scope(text)
  /\ IF pc = "text_ok"
       THEN /\ result' = Ok
            /\ out' = [Value("string") EXCEPT !.len = text.len, !.cap = TextCap,
                                              !.valid = FALSE]
            /\ UNCHANGED errs
       ELSE /\ result' = Err("GP_ERROR_CORRUPTED_DATA")
            /\ errs' = errs + 1
            /\ out' = NoOut
  /\ pc' = "idle"
  /\ UNCHANGED <<cam, native, opsDone, op, ncalls, call>>
  /\ UNCHANGED waitVars

\* The caller drops the String a query returned: its buffer is handed to
\* the allocator's dealloc, with the same undefined outcome.
drop_string ==
  /\ pc \in {"idle", "closed"}
  /\ "vec" \in text.owners
  /\ text' = dealloc(text)
  /\ \/ pc' = "fault"
     \/ UNCHANGED pc
  /\ UNCHANGED <<cam, native, opsDone, op, ncalls, call, result, errs, out>>
  /\ UNCHANGED waitVars

Next ==
  \/ autodetect_new
  \/ autodetect_init
  \/ drop
  \/ capture_image
  \/ trigger_capture
  \/ download
  \/ wait_for_file
  \/ wait_native
  \/ wait_file_added_clone
  \/ wait_file_added_return
  \/ wait_timeout
  \/ wait_other
  \/ port
  \/ abilities
  \/ unwind
  \/ storage
  \/ summary
  \/ manual
  \/ about_driver
  \/ camera_text_to_string
  \/ text_drop_vec
  \/ text_return
  \/ drop_string

Spec == Init /\ [][Next]_vars

\* A running wait_for_file call keeps going: the native wait returns and
\* the loop body runs on.  The event stream's share of the assumption, a
\* terminal event or a failure after finitely many "other" events, is the
\* MaxOther guard of wait_native.
FairSpec ==
  /\ Spec
  /\ WF_vars(wait_native)
  /\ WF_vars(wait_file_added_clone)
  /\ WF_vars(wait_file_added_return)
  /\ WF_vars(wait_timeout)
  /\ WF_vars(wait_other)


(* ------------------------------ properties ----------------------------- *)

WaitPcs == {"wait_call", "wait_match", "wait_free"}
TextPcs == {"text_transfer", "text_ok", "text_bad", "text_err"}
TextOps == {"summary", "manual", "about_driver"}
Fallible ==
  {"autodetect", "capture_image", "trigger_capture", "wait_for_file",
   "download", "storage"} \cup TextOps

\* A wait_for_file call that was handed its terminal event and is over.
WaitOver ==
  /\ op = "wait_for_file"
  /\ pc \notin WaitPcs
  /\ events # <<>>
  /\ LastEvent.kind \in {"GP_EVENT_FILE_ADDED", "GP_EVENT_TIMEOUT"}

\* C1: a wait_for_file call fed "other" events and then one file-added or
\* timeout event returns the one result that matches the terminal event (a
\* file for file-added, "no file" without error for timeout), and every
\* payload allocation delivered during the call has been freed exactly once
\* when the call is over.
C1_WaitResultAndRelease ==
  WaitOver =>
    /\ result.ret = "ok"
    /\ LastEvent.kind = "GP_EVENT_FILE_ADDED" => out.tag = "file"
    /\ LastEvent.kind = "GP_EVENT_TIMEOUT" => out.tag = "nofile"
    /\ \A i \in 1..Len(events) : events[i].data # Null => frees[i] = 1

\* C2: autodetect neither leaks nor over-releases the handle.  A failed
\* gp_camera_new is followed by no unref; a failed gp_camera_init by exactly
\* one, made before the error is returned; a successful autodetect makes
\* none and returns the session that holds the handle.
C2_OpenReleases ==
  /\ pc = "init" => native.unrefs = 0 /\ cam.exists
  /\ (pc = "failed" /\ ~native.allocated) => native.unrefs = 0 /\ ~cam.exists
  /\ (pc = "failed" /\ native.allocated) => native.unrefs = 1 /\ ~cam.exists
  /\ (pc = "idle" /\ op = "autodetect") =>
       /\ native.unrefs = 0
       /\ cam = [exists |-> TRUE, ptr |-> Handle]
       /\ result = Ok /\ out.tag = "session"

C2_InitFailedReleased ==
  pc = "failed" /\ native.allocated /\ native.unrefs = 1 /\ result.ret = "err"

\* C3: over the lifetime of an open session the handle is unreferenced
\* exactly once: only the step that destroys the Camera unreferences it, it
\* does so once, and no native call is issued once it is unreferenced.
C3_ReleasedOnce ==
  /\ [](/\ native.unrefs <= 1
        /\ (native.unrefs = 1) <=> (native.allocated /\ ~cam.exists))
  /\ [][/\ native'.unrefs # native.unrefs =>
             /\ cam.exists /\ ~cam'.exists
             /\ native'.unrefs = native.unrefs + 1
             /\ pc # "init" => call' = call
        /\ native.unrefs > 0 => call' = call /\ native' = native]_vars

C3_DroppedAfterOps ==
  pc = "closed" /\ opsDone = MaxOps /\ errs > 0 /\ errs < opsDone /\ native.unrefs = 1

\* C4: every fallible operation checks the status right after the native
\* call.  The step that gets a non-success status returns the translated
\* error, yields no value, takes no ownership of a buffer and touches no
\* event, payload or output of the call; an error is never returned along
\* with a value.
C4_ErrorShortCircuits ==
  /\ [](result.ret = "err" => out = NoOut)
  /\ [][(/\ call'.seq # call.seq
         /\ call'.status # "GP_OK"
         /\ op' \in Fallible) =>
          /\ result' = Err(call'.status)
          /\ out' = NoOut
          /\ pc' = IF op' = "autodetect" THEN "failed" ELSE "idle"
          /\ text'.owners = {}
          /\ op' = "wait_for_file" =>
               events' = events /\ frees' = frees /\ file' = file
          /\ ~cam'.exists \/ cam' = cam]_vars

C4_StorageFailed ==
  op = "storage" /\ pc = "idle" /\ call.status = "GP_ERROR_IO"
  /\ result = Err("GP_ERROR_IO") /\ call.arg > 0


\* C5 as stated: a wait_for_file call ends only when the event just received
\* is file-added or timeout; there is no other way for it to end.
C5_OnlyTwoExits ==
  [][(pc \in WaitPcs /\ pc' \notin WaitPcs) =>
       /\ pc \in {"wait_match", "wait_free"}
       /\ LastEvent.kind \in {"GP_EVENT_FILE_ADDED", "GP_EVENT_TIMEOUT"}]_vars

\* C5 as amended: a wait_for_file call ends only when the event just
\* received is file-added or timeout, or when the native wait reports a
\* non-success status, which is returned as an error at once; an "other"
\* event never ends it: the loop goes back to the native wait.
C5_ExitsOnTerminalOrError ==
  [][/\ (pc \in WaitPcs /\ pc' \notin WaitPcs) =>
          \/ /\ pc \in {"wait_match", "wait_free"}
             /\ LastEvent.kind \in {"GP_EVENT_FILE_ADDED", "GP_EVENT_TIMEOUT"}
          \/ /\ pc = "wait_call"
             /\ call'.seq # call.seq
             /\ call'.status # "GP_OK"
             /\ result' = Err(call'.status)
     /\ (pc = "wait_match" /\ LastEvent.kind = "GP_EVENT_OTHER" /\ pc' # pc) =>
          pc' = "wait_call" /\ result' = NoResult]_vars

C5_ErrorAfterOther ==
  /\ op = "wait_for_file" /\ pc = "idle"
  /\ result = Err("GP_ERROR_IO")
  /\ Len(events) = MaxOther
  /\ LastEvent.kind = "GP_EVENT_OTHER"

\* What an operation returns for the status of its one native call, where
\* the status alone decides it.
Decided(o, s) ==
  IF s # "GP_OK"
    THEN o \in Fallible \cup {"port", "abilities"}
    ELSE o \notin {"wait_for_file"} \cup TextOps

Outcome(o, s) ==
  IF s = "GP_OK" THEN Ok
  ELSE IF o \in {"port", "abilities"} THEN [ret |-> "panic", kind |-> "none"]
  ELSE Err(s)

\* C6: an operation that returns an error leaves the session as it was, the
\* same handle held and not unreferenced; every operation invoked after a
\* failure still issues its native call on that handle and returns what the
\* call's status decides.
C6_FailureLeavesSessionUsable ==
  /\ [][errs' > errs =>
          /\ cam' = cam /\ native' = native
          /\ cam' = [exists |-> TRUE, ptr |-> Handle]
          /\ native'.unrefs = 0
          /\ pc' = "idle"]_vars
  /\ [][(errs > 0 /\ opsDone' = opsDone + 1) =>
          call'.seq = call.seq + 1 \/ pc' = "wait_call"]_vars
  /\ [][(errs > 0 /\ pc = "wait_call" /\ pc' # pc) => call'.seq = call.seq + 1]_vars
  /\ [][(errs > 0 /\ call'.seq # call.seq) =>
          /\ call'.seq = call.seq + 1
          /\ call'.handle = Handle
          /\ Decided(op', call'.status) => result' = Outcome(op', call'.status)]_vars

C6_FailsAgainAfterFailure ==
  /\ pc = "idle" /\ op = "capture_image"
  /\ errs = 2 /\ opsDone = 2
  /\ result = Err("GP_ERROR_IO")
  /\ call.handle = Handle /\ native.unrefs = 0

\* C7: a text query whose native call reports "not supported" returns
\* NotSupported without running the transfer; one whose call succeeds with
\* text that is not UTF-8 up to the terminator returns CorruptedData after
\* the transfer; every other successful query returns a string.
C7_TextQueryResults ==
  (op \in TextOps /\ pc \notin TextPcs) =>
    /\ call.status = "GP_ERROR_NOT_SUPPORTED" =>
         /\ result = [ret |-> "err", kind |-> "NotSupported"]
         /\ text = NoText
    /\ (call.status = "GP_OK" /\ ~is_utf8(text.buf, strlen(text.buf))) =>
         /\ result = [ret |-> "err", kind |-> "CorruptedData"]
         /\ text.len = strlen(text.buf)
    /\ (call.status = "GP_OK" /\ is_utf8(text.buf, strlen(text.buf))) =>
         /\ result = Ok
         /\ out.tag = "string"

\* C8: once the transfer has run, the text buffer's storage has one owner at
\* a time and is destroyed exactly once: never held by the by-value buffer
\* and the Vec together, never destroyed twice, and destroyed once all its
\* owners are gone.
C8_SingleOwnerDestroyedOnce ==
  /\ Cardinality(text.owners) <= 1
  /\ text.destroyed <= 1
  /\ (text.buf # <<>> /\ text.owners = {}) => text.destroyed = 1

\* C9: a storage query that succeeds with count n returns a Vec of length n
\* and capacity n, for every n from 0 up; a count of 0 gives the empty
\* Vec, no error and no fault, also when the array pointer is null.
C9_StorageLength ==
  (op = "storage" /\ call.status = "GP_OK") =>
    /\ result = Ok
    /\ out.tag = "storage"
    /\ out.len = call.arg /\ out.cap = call.arg
    /\ pc # "fault"

C9_EmptyStorage ==
  /\ op = "storage" /\ pc = "idle" /\ result = Ok
  /\ call.arg = 0 /\ out.src = Null /\ out.len = 0 /\ out.tag = "storage"

\* C10: port and abilities never return an error: a successful native call
\* gives the metadata, any other status ends in the assertion's panic with
\* no value returned.
C10_AssertedNeverErr ==
  op \in {"port", "abilities"} =>
    /\ result.ret # "err"
    /\ call.status = "GP_OK" => result = Ok /\ out.tag = op
    /\ call.status # "GP_OK" =>
         /\ result.ret = "panic"
         /\ out = NoOut
         /\ pc \in {"panicked", "unwound"}

C10_AbilitiesPanicked ==
  op = "abilities" /\ pc = "panicked" /\ call.status = "GP_ERROR_IO"
  /\ call.fn = "gp_camera_get_abilities"


\* The number of bytes of a buffer before its first terminator.
BytesBeforeNul(b) ==
  CHOOSE n \in 0..(Len(b) - 1) : b[n + 1] = 0 /\ \A j \in 1..n : b[j] # 0

\* C11: when the transfer yields a string, the string's length is the
\* number of bytes before the first terminator of the buffer, and the
\* transfer has accessed no byte at an index above that length (the
\* terminator, at that index, is the last byte read).
C11_StringLengthAndReads ==
  (op \in TextOps /\ out.tag = "string") =>
    /\ out.len = BytesBeforeNul(text.buf)
    /\ text.touched <= out.len + 1

C11_TwoByteString ==
  /\ op = "summary" /\ pc = "idle" /\ result = Ok /\ out.tag = "string"
  /\ text.buf = <<195, 169, 0>> /\ out.len = 2 /\ text.touched = 3


\* C12 as stated: in every state in which the Camera object exists, also
\* inside autodetect between gp_camera_new and gp_camera_init, the handle it
\* holds is non-null and initialized.
C12_HandleAlwaysInitialized ==
  cam.exists => cam.ptr # Null /\ native.initialized

\* C12 as amended: in every state in which the Camera object exists its
\* handle is non-null, allocated and not unreferenced, and it is initialized
\* once autodetect has returned the object; inside autodetect, from
\* gp_camera_new to gp_camera_init, and when a failed gp_camera_init makes
\* autodetect drop the object, the handle is allocated but not initialized.
C12_HandleHeldInitializedOnceOpen ==
  /\ cam.exists =>
       /\ cam.ptr = Handle
       /\ native.allocated /\ native.unrefs = 0
       /\ native.initialized <=> pc # "init"
  /\ (pc = "failed" /\ native.allocated) => ~native.initialized /\ ~cam.exists

C12_ObjectBeforeInit ==
  pc = "init" /\ cam = [exists |-> TRUE, ptr |-> Handle]
  /\ native = [allocated |-> TRUE, initialized |-> FALSE, unrefs |-> 0]


\* The payloads delivered to the running wait_for_file call and not freed.
Unreleased ==
  {i \in 1..Len(events) : events[i].data # Null /\ frees[i] = 0}

\* C13: within one wait_for_file call every payload is freed before the next
\* gp_camera_wait_for_event is issued and before the call returns, on the
\* file-added, timeout and other branches alike; so at most one payload, that
\* of the last event, is unreleased at any moment, no payload is freed twice,
\* a null payload is never counted as freed, and the release steps never
\* fault.
C13_PayloadReleasedBeforeNextWait ==
  /\ pc \notin {"wait_match", "wait_free"} => Unreleased = {}
  /\ Unreleased \subseteq {Len(events)}
  /\ Len(frees) = Len(events)
  /\ \A i \in 1..Len(events) :
       /\ frees[i] <= 1
       /\ events[i].data = Null => frees[i] = 0
  /\ (pc = "fault" /\ op = "wait_for_file") =>
       /\ events # <<>>
       /\ LastEvent.kind = "GP_EVENT_FILE_ADDED"
       /\ LastEvent.data = Null

C13_SecondWaitAfterRelease ==
  /\ pc = "wait_call" /\ Len(events) = 2
  /\ events[1].data # Null /\ frees[1] = 1
  /\ events[2].data = Null /\ frees[2] = 0


\* C14: every gp_camera_wait_for_event issued by one wait_for_file call
\* receives the same, full caller-supplied timeout: the value passed is the
\* caller's value, and it is the value the call's earlier waits were passed.
C14_SameFullTimeoutEveryWait ==
  [][(pc = "wait_call" /\ call'.seq # call.seq) =>
       /\ timeout.hi = 0 /\ call'.arg = timeout.lo
       /\ ncalls > 0 => call'.arg = call.arg]_vars

\* The part of C14 that does not depend on the conversion: the value passed
\* does not change from one iteration to the next.
C14_TimeoutNotReduced ==
  [][(pc = "wait_call" /\ call'.seq # call.seq /\ ncalls > 0) =>
       call'.arg = call.arg /\ timeout' = timeout]_vars


SingleCallOps ==
  {"capture_image", "trigger_capture", "download", "storage", "abilities",
   "port"} \cup TextOps

\* C15: no operation retries a native call.  capture_image, trigger_capture,
\* download, storage, summary, manual, about_driver, abilities and port have
\* issued exactly one native call per invocation; wait_for_file has issued
\* k native waits when it is about to wait after k "other" events and k + 1
\* when it is over on a terminal event or an error (one, for a timeout event
\* on the first iteration), and it is never in its loop after a wait that
\* failed; every native call is counted once as it is issued.
C15_NoRetry ==
  /\ [](/\ op \in SingleCallOps => ncalls = 1
        /\ op = "wait_for_file" =>
             /\ pc = "wait_call" => ncalls = Others /\ Others = Len(events)
             /\ pc \in {"wait_match", "wait_free"} => ncalls = Len(events)
             /\ pc \notin WaitPcs => ncalls = Others + 1
             /\ (pc \in WaitPcs /\ ncalls > 0) => call.status = "GP_OK"
             /\ result.ret = "err" =>
                  call.status # "GP_OK" /\ pc \notin WaitPcs
             /\ (pc \notin WaitPcs /\ result = Ok /\ out.tag = "nofile"
                   /\ Others = 0) => ncalls = 1)
  /\ [][call'.seq # call.seq =>
          /\ call'.seq = call.seq + 1
          /\ ncalls' = IF pc \in {"init", "wait_call"} THEN ncalls + 1 ELSE 1]_vars

C15_FailedAfterOneOther ==
  /\ op = "wait_for_file" /\ pc = "idle" /\ result.ret = "err"
  /\ Others = 1 /\ Len(events) = 1 /\ ncalls = 2


\* C16: under the fairness of FairSpec a wait_for_file call that has entered
\* its loop eventually returns, with Ok or with an error, however many
\* "other" events it consumes first.
C16_WaitEventuallyReturns ==
  (op = "wait_for_file" /\ pc = "wait_call") ~>
    (op = "wait_for_file" /\ pc = "idle" /\ result.ret \in {"ok", "err"})

\* What the loop does guarantee: the call ends, by returning or by the
\* fault of the read through a null file-added payload.
C16_WaitEndsOrFaults ==
  (op = "wait_for_file" /\ pc = "wait_call") ~>
    (op = "wait_for_file" /\ pc \in {"idle", "fault"})


\* C17: on the file-added branch the CameraFilePath is copied out of the
\* payload before the payload is freed, and the file handle returned holds
\* that copy: between the copy and the free the payload is unreleased, the
\* free of a file-added payload happens only after the copy and in the step
\* that returns it, and the handle returned was not read from a released
\* payload.
C17_CopiedBeforeRelease ==
  /\ [](/\ (op = "wait_for_file" /\ pc = "wait_free") =>
             /\ LastEvent.kind = "GP_EVENT_FILE_ADDED"
             /\ file.src = LastEvent.data
             /\ frees[Len(events)] = 0
             /\ file.src # Null => file.valid
        /\ (op = "wait_for_file" /\ out.tag = "file") =>
             /\ out.src = LastEvent.data
             /\ ~(out.src # Null /\ ~out.valid)
             /\ frees[Len(events)] = IF out.src = Null THEN 0 ELSE 1)
  /\ [][(/\ events # <<>>
         /\ LastEvent.kind = "GP_EVENT_FILE_ADDED"
         /\ events' = events
         /\ frees' # frees) =>
          /\ pc = "wait_free" /\ pc' = "idle"
          /\ file.src = LastEvent.data
          /\ out' = [Value("file") EXCEPT !.src = file.src, !.valid = file.valid]]_vars

C17_FileFromLivePayload ==
  /\ op = "wait_for_file" /\ pc = "idle" /\ result = Ok
  /\ out.tag = "file" /\ out.src = 1 /\ out.valid
  /\ events = <<[kind |-> "GP_EVENT_FILE_ADDED", data |-> 1]>>
  /\ frees = <<1>>


\* C18: wait_for_file never reads through a null payload pointer: for every
\* (event kind, payload pointer) pair gp_camera_wait_for_event can deliver,
\* a file-added event with a null payload included, the step that
\* dereferences the payload is taken only when the payload is non-null.
C18_NoNullDereference ==
  [][(/\ pc = "wait_match"
      /\ LastEvent.kind = "GP_EVENT_FILE_ADDED"
      /\ pc' # pc) => LastEvent.data # Null]_vars

\* C19: for every timeout in the u32 range the value handed to
\* gp_camera_wait_for_event is non-negative and equal to the caller's value:
\* the conversion to c_int never wraps.
C19_TimeoutNotWrapped ==
  (op = "wait_for_file" /\ ncalls > 0) =>
    /\ call.fn = "gp_camera_wait_for_event"
    /\ call.arg >= 0
    /\ timeout.hi = 0 /\ call.arg = timeout.lo

====
